---- MODULE Spec2Model ----
(***************************************************************************)
(* Model of masc::Classifier (q3DMASCClassifier.cpp / q3DMASCClassifier.h) *)
(* and of Classify3DMASCDialog (qClassify3DMASCDialog.cpp) of the q3DMASC  *)
(* CloudCompare plugin.                                                    *)
(*                                                                         *)
(* Numeric values (scalar-field values, coordinates, colours, predictions) *)
(* are fixed-point integers counted in HALF units: the integer v stands    *)
(* for the real number v/2, so that the float -> int truncations of the    *)
(* code are real conversions.  Point indices are 0-based as in the code;   *)
(* matrix rows and columns are 1-based (row i+1 is the code's row i).      *)
(*                                                                         *)
(* Feature::Set elements are constructed features (non-null, with a        *)
(* non-null cloud, as Feature's constructor asserts) and the indices of a  *)
(* ReferenceCloud are valid indices of its associated cloud.               *)
(*                                                                         *)
(* assert(false) depends on the build: with assertions compiled in it      *)
(* aborts the process, with NDEBUG it does nothing and the code after it   *)
(* runs.  The build is chosen once, in Init (asserts).  A call that ends   *)
(* the process (abort, null dereference, exception nobody catches) never   *)
(* returns: call.returned and alive become FALSE and nothing runs after.   *)
(*                                                                         *)
(* The ensemble trainer is opaque: a forest is one split on the first      *)
(* attribute, the trainer may produce any forest of TrainedModels, may     *)
(* return without having trained, or may throw.                            *)
(***************************************************************************)
EXTENDS Integers, Sequences, FiniteSets, TLC

\* ------------------------------------------------------------------ bounds
\* number of points of every cloud of the catalogue
NumPoints == 2
\* longest Feature::Set passed to train / evaluate
MaxFeatures == 2
\* longest ReferenceCloud (point subset) passed to train / evaluate
MaxSubset == 2
\* most point clouds loaded in the host when the dialog is built
MaxClouds == 3

\* ------------------------------------------------------- null / no value
\* a null cv::Ptr<RTrees> / an RTrees object; an RTrees object is a
\* one-split tree over the first attribute: row[0] <= thr ? lo : hi
NullModel == [isNull |-> TRUE, trained |-> FALSE, thr |-> 0, lo |-> 0, hi |-> 0]
\* a null CCLib::ReferenceCloud*
NoSubset == [isNull |-> TRUE, cloud |-> "", idx |-> << >>]
\* a null CCLib::ScalarField*
NoField == ""
\* a null QSharedPointer<IScalarFieldWrapper>
NoSource == [isNull |-> TRUE, kind |-> "", cloud |-> "", field |-> ""]

\* ------------------------------------------ the host's clouds (external)
\* main   : Intensity (index 0), Classification (index 1), colours
\* aux    : Classification is the FIRST scalar field (index 0), no colours
\* bare   : no Classification field at all
\* short  : Classification field shorter than the cloud
\* generic: associated cloud of a subset that is not a ccPointCloud
PointClouds == {"main", "aux", "bare", "short"}
AllClouds == PointClouds \cup {"generic"}

IsPointCloud(c) == c \in PointClouds

CloudSize(c) == NumPoints

SFNames(c) ==
    CASE c = "main"  -> <<"Intensity", "Classification">>
      [] c = "aux"   -> <<"Classification", "Intensity">>
      [] c = "bare"  -> <<"Intensity">>
      [] c = "short" -> <<"Intensity", "Classification">>
      [] OTHER       -> << >>

SFSize(c, name) ==
    IF c = "short" /\ name = "Classification" THEN NumPoints - 1 ELSE NumPoints

HasColors(c) == c = "main"

\* ground-truth classes (half units): 1.5, 258.0, -1.0, 2.0, 0.5
ClassData == <<3, 516, -2, 4, 1>>

\* value of scalar field `name` of cloud c at point index i (half units)
SFValue(c, name, i) ==
    IF name = "Classification"
    THEN ClassData[((i + (IF c = "main" THEN 0 ELSE 1)) % Len(ClassData)) + 1]
    ELSE IF c = "main" THEN 2 + 16 * i ELSE 4 * i + 1

\* coordinate d ("X","Y","Z") of point i (half units)
CoordValue(c, d, i) ==
    CASE d = "X" -> IF i = 1 THEN 16777218 ELSE 2 * i
      [] d = "Y" -> 0 - (3 * i + 1)
      [] OTHER   -> 7 + 2 * i

\* colour channel ch ("R","G","B") of point i (half units, 0..255)
ColorValue(c, ch, i) ==
    CASE ch = "R" -> 510
      [] ch = "G" -> 2 * (i % 256)
      [] OTHER    -> 0

\* ccPointCloud::getScalarFieldIndexByName: 0-based index, -1 when not found
RECURSIVE IndexOf(_, _, _)
IndexOf(names, name, k) ==
    IF k > Len(names) THEN -1
    ELSE IF names[k] = name THEN k - 1
    ELSE IndexOf(names, name, k + 1)

getScalarFieldIndexByName(c, name) == IndexOf(SFNames(c), name, 1)

\* ccPointCloud::getScalarField(index): the field, or null when out of range
getScalarField(c, idx) ==
    IF idx >= 0 /\ idx < Len(SFNames(c)) THEN SFNames(c)[idx + 1] ELSE NoField

\* --------------------------------------------------------- conversions
Abs(v) == IF v < 0 THEN 0 - v ELSE v

\* static_cast<int>(float): truncation toward zero (result in whole units)
IntCast(v) == IF v >= 0 THEN v \div 2 ELSE 0 - ((0 - v) \div 2)

\* static_cast<float>(double): 24-bit significand, round to nearest even
ToFloat(v) ==
    IF Abs(v) < 16777216 THEN v
    ELSE LET q == Abs(v) \div 2
             r == Abs(v) % 2
             m == IF r = 0 THEN q ELSE IF q % 2 = 0 THEN q ELSE q + 1
         IN  IF v < 0 THEN 0 - 2 * m ELSE 2 * m

\* ------------------------------------------------------------- features
Feat(c, s, n) == [cloud |-> c, source |-> s, sourceName |-> n]

\* the features callers draw their Feature::Set from
FeaturePool ==
    { Feat("main", "ScalarField", "Intensity"),
      Feat("main", "DimX", ""),
      Feat("main", "ScalarField", "Absent"),
      Feat("aux", "ScalarField", "Intensity"),
      Feat("bare", "Green", ""),
      Feat("short", "DimZ", "") }

RECURSIVE SeqsUpTo(_, _)
SeqsUpTo(S, n) ==
    IF n = 0 THEN { << >> }
    ELSE LET shorter == SeqsUpTo(S, n - 1)
         IN  shorter \cup { Append(s, x) : s \in shorter, x \in S }

FeatureSets == SeqsUpTo(FeaturePool, MaxFeatures)

\* the selections of at most MaxSubset different points of a cloud, in any order
Selections ==
    { s \in SeqsUpTo(0 .. (NumPoints - 1), MaxSubset) :
        \A i, j \in 1 .. Len(s) : i # j => s[i] # s[j] }

\* CCLib::ReferenceCloud: associated cloud + ordered global point indices
Subsets ==
    { [isNull |-> FALSE, cloud |-> c, idx |-> s] : c \in AllClouds, s \in Selections }

SubsetArgs == Subsets \cup {NoSubset}

\* ------------------------------------------------- value sources (4.1)
\* GetSource: the wrapper of feature f over `cloud`, null for an unknown
\* scalar field
GetSource(f, cloud) ==
    CASE f.source = "ScalarField" ->
            LET sfIdx == getScalarFieldIndexByName(cloud, f.sourceName)
            IN  IF sfIdx >= 0
                THEN [isNull |-> FALSE, kind |-> "ScalarField", cloud |-> cloud,
                      field |-> getScalarField(cloud, sfIdx)]
                ELSE NoSource
      [] f.source = "DimX"  -> [isNull |-> FALSE, kind |-> "DimX", cloud |-> cloud, field |-> ""]
      [] f.source = "DimY"  -> [isNull |-> FALSE, kind |-> "DimY", cloud |-> cloud, field |-> ""]
      [] f.source = "DimZ"  -> [isNull |-> FALSE, kind |-> "DimZ", cloud |-> cloud, field |-> ""]
      [] f.source = "Red"   -> [isNull |-> FALSE, kind |-> "Red", cloud |-> cloud, field |-> ""]
      [] f.source = "Green" -> [isNull |-> FALSE, kind |-> "Green", cloud |-> cloud, field |-> ""]
      [] f.source = "Blue"  -> [isNull |-> FALSE, kind |-> "Blue", cloud |-> cloud, field |-> ""]

\* IScalarFieldWrapper::isValid
SourceIsValid(src) ==
    CASE src.kind = "ScalarField" ->
            src.field # NoField /\ SFSize(src.cloud, src.field) >= CloudSize(src.cloud)
      [] src.kind \in {"DimX", "DimY", "DimZ"} -> TRUE
      [] OTHER -> HasColors(src.cloud)

\* IScalarFieldWrapper::pointValue
pointValue(src, pointIndex) ==
    CASE src.kind = "ScalarField" -> SFValue(src.cloud, src.field, pointIndex)
      [] src.kind = "DimX"  -> CoordValue(src.cloud, "X", pointIndex)
      [] src.kind = "DimY"  -> CoordValue(src.cloud, "Y", pointIndex)
      [] src.kind = "DimZ"  -> CoordValue(src.cloud, "Z", pointIndex)
      [] src.kind = "Red"   -> ColorValue(src.cloud, "R", pointIndex)
      [] src.kind = "Green" -> ColorValue(src.cloud, "G", pointIndex)
      [] OTHER              -> ColorValue(src.cloud, "B", pointIndex)

\* ------------------------------------------------------ cv::Mat (CV_32FC1)
\* cv::Mat::create allocates without initialising: `at` is defined on the
\* cells written so far only
MatCreate(rows, cols) == [rows |-> rows, cols |-> cols, at |-> [c \in {} |-> 0]]

NoMat == MatCreate(0, 0)

\* FillColumn reading the point of row i at index i itself, as if the
\* subset were the whole cloud (getPointGlobalIndex forgotten)
FillColumn_LocalIndex(m, src, idx, fIndex) ==
    [m EXCEPT !.at =
        [c \in DOMAIN m.at \cup { <<i, fIndex>> : i \in 1 .. m.rows } |->
            IF c[2] = fIndex THEN ToFloat(pointValue(src, c[1] - 1))
                             ELSE m.at[c]]]

\* the inner loop over the samples: column fIndex of the matrix receives
\* the value of `src` at the point of each row
FillColumn(m, src, idx, fIndex) ==
    [m EXCEPT !.at =
        [c \in DOMAIN m.at \cup { <<i, fIndex>> : i \in 1 .. m.rows } |->
            IF c[2] = fIndex THEN ToFloat(pointValue(src, idx[c[1]]))
                             ELSE m.at[c]]]

\* cv::Mat::row(i)
MatRow(m, i) == [j \in 1 .. m.cols |-> m.at[<<i, j>>]]

\* ------------------------------------------- cv::ml::RTrees (external, opaque)
Tree(thr, lo, hi) == [isNull |-> FALSE, trained |-> TRUE, thr |-> thr, lo |-> lo, hi |-> hi]

\* cv::ml::RTrees::create(): a new forest without any tree
CreatedModel == [isNull |-> FALSE, trained |-> FALSE, thr |-> 0, lo |-> 0, hi |-> 0]

\* the forests the opaque trainer may produce
TrainedModels == { Tree(10, 2, 517), Tree(10, 3, 4) }

\* cv::ml::RTrees::isTrained
isTrained(m) == m.trained

\* cv::ml::RTrees::predict on one row (a float, half units)
predict(m, row) == IF row[1] <= m.thr THEN m.lo ELSE m.hi

\* Serialize writing the left leaf twice
Serialize_OneLeaf(m) == <<(IF m.trained THEN 1 ELSE 0), m.thr, m.lo, m.lo>>

\* cv::Algorithm::save: the bytes written for a forest
Serialize(m) == <<(IF m.trained THEN 1 ELSE 0), m.thr, m.lo, m.hi>>

\* cv::Algorithm::load: a null Ptr when the file is missing or unreadable
Deserialize(bytes) ==
    IF Len(bytes) = 4 /\ bytes[1] \in {0, 1}
    THEN [isNull |-> FALSE, trained |-> (bytes[1] = 1),
          thr |-> bytes[2], lo |-> bytes[3], hi |-> bytes[4]]
    ELSE NullModel

\* ---------------------------------------------------- Classifier::isValid
isValid(m) == (~m.isNull) /\ isTrained(m)

\* ------------------------------------------------------- AccuracyMetrics
RECURSIVE GCD(_, _)
GCD(a, b) == IF b = 0 THEN a ELSE GCD(b, a % b)

\* float division goodGuess / sampleCount: 0/0 is NaN
FloatDiv(a, b) ==
    IF b = 0 THEN [nan |-> TRUE, num |-> 0, den |-> 0]
    ELSE [nan |-> FALSE, num |-> a \div GCD(a, b), den |-> b \div GCD(a, b)]

\* the float 0.0f
Zero == [nan |-> FALSE, num |-> 0, den |-> 1]

ZeroMetrics == [sampleCount |-> 0, goodGuess |-> 0, ratio |-> Zero]

\* ------------------------------------------------- error messages (tr())
MsgNotTrained == "Classifier hasn't been trained yet"
MsgNoFeature == "Training method called without any feature?!"
MsgNoTestSubset == "No test subset provided"
MsgNotPointCloud == "Invalid test subset (associated point cloud is not a ccPointCloud)"
MsgMissingClassif == "Missing 'Classification' field on input cloud"
MsgInvalidClassif == "Invalid 'Classification' field on input cloud"
MsgInvalidSource == "Internal error: invalid source"
MsgOtherCloud == "Invalid feature: associated cloud is different than the others"
MsgOtherSubsetCloud == "Invalid train subset (associated point cloud is different)"
MsgCvException == "cv::Exception"
MsgStdException == "std::exception"
MsgUnknown == "Unknown error"
MsgTrainingFailed == "Training failed for an unknown reason..."
NoMsg == ""

\* ------------------------------------------------ Classifier::evaluate
\* the loop filling test_data, feature by feature (lines 155-178)
RECURSIVE FillTestData(_, _, _, _, _)
FillTestData(m, features, cloud, idx, fIndex) ==
    IF fIndex > Len(features) THEN [ok |-> TRUE, mat |-> m]
    ELSE LET source == GetSource(features[fIndex], cloud)
         IN  IF source.isNull \/ ~SourceIsValid(source)
             THEN [ok |-> FALSE, mat |-> m]
             ELSE FillTestData(FillColumn(m, source, idx, fIndex),
                               features, cloud, idx, fIndex + 1)

\* CountGoodGuess comparing the float prediction with the float class, without
\* truncating either
RECURSIVE CountGoodGuess_NoTruncation(_, _, _, _, _, _)
CountGoodGuess_NoTruncation(model, test_data, cloud, classifSF, idx, i) ==
    IF i > Len(idx) THEN 0
    ELSE LET pointClass == SFValue(cloud, classifSF, idx[i])
             predictedClass == predict(model, MatRow(test_data, i))
         IN  (IF predictedClass = pointClass THEN 1 ELSE 0)
             + CountGoodGuess_NoTruncation(model, test_data, cloud, classifSF, idx, i + 1)

\* the loop counting the good guesses (lines 185-201)
RECURSIVE CountGoodGuess(_, _, _, _, _, _)
CountGoodGuess(model, test_data, cloud, classifSF, idx, i) ==
    IF i > Len(idx) THEN 0
    ELSE LET pointClass == SFValue(cloud, classifSF, idx[i])
             iClass == IntCast(pointClass)
             predictedClass == predict(model, MatRow(test_data, i))
         IN  (IF IntCast(predictedClass) = iClass THEN 1 ELSE 0)
             + CountGoodGuess(model, test_data, cloud, classifSF, idx, i + 1)

\* what a call returns: `returned` is FALSE when the call never returns
\* (assert(false) in a build with assertions, see EvaluateResult)
EvalFail(msg) ==
    [returned |-> TRUE, ret |-> FALSE, msg |-> msg, metrics |-> ZeroMetrics,
     predicts |-> 0, data |-> NoMat]

EvalAbort ==
    [returned |-> FALSE, ret |-> FALSE, msg |-> NoMsg, metrics |-> ZeroMetrics,
     predicts |-> 0, data |-> NoMat]

\* assert(false); errorMessage = msg; return false;
EvalAssertFalse(asserts, msg) == IF asserts THEN EvalAbort ELSE EvalFail(msg)

\* EvaluateChecks looking at the test subset before the feature list
EvaluateChecks_SubsetFirst(m_rtrees_k, features, testSubset) ==
    IF m_rtrees_k.isNull \/ ~isTrained(m_rtrees_k) THEN MsgNotTrained
    ELSE IF testSubset.isNull THEN MsgNoTestSubset
    ELSE IF features = << >> THEN MsgNoFeature
    ELSE IF ~IsPointCloud(testSubset.cloud) THEN MsgNotPointCloud
    ELSE NoMsg

\* the argument checks of evaluate, in the order of lines 99-120: the
\* message of the first one that fails, NoMsg when all pass
EvaluateChecks(m_rtrees_k, features, testSubset) ==
    IF m_rtrees_k.isNull \/ ~isTrained(m_rtrees_k) THEN MsgNotTrained
    ELSE IF features = << >> THEN MsgNoFeature
    ELSE IF testSubset.isNull THEN MsgNoTestSubset
    ELSE IF ~IsPointCloud(testSubset.cloud) THEN MsgNotPointCloud
    ELSE NoMsg

\* the whole of evaluate on the model m_rtrees; allocOk: cv::Mat::create
\* does not throw; asserts: the build keeps assert()
EvaluateResult(m_rtrees_k, features, testSubset, allocOk, asserts) ==
    IF EvaluateChecks(m_rtrees_k, features, testSubset) # NoMsg
    THEN EvalFail(EvaluateChecks(m_rtrees_k, features, testSubset))
    ELSE
    LET cloud == testSubset.cloud
        classifSFIdx == getScalarFieldIndexByName(cloud, "Classification")
    IN
    IF classifSFIdx = 0 THEN EvalFail(MsgMissingClassif)
    ELSE
    LET classifSF == getScalarField(cloud, classifSFIdx) IN
    IF classifSF = NoField \/ SFSize(cloud, classifSF) < CloudSize(cloud)
    THEN EvalAssertFalse(asserts, MsgInvalidClassif)
    ELSE
    LET testSampleCount == Len(testSubset.idx)
        attributesPerSample == Len(features)
    IN
    IF ~allocOk THEN EvalFail(MsgCvException)
    ELSE
    LET filled == FillTestData(MatCreate(testSampleCount, attributesPerSample),
                               features, cloud, testSubset.idx, 1)
    IN
    IF ~filled.ok THEN EvalAssertFalse(asserts, MsgInvalidSource)
    ELSE
    LET test_data == filled.mat
        goodGuess == CountGoodGuess(m_rtrees_k, test_data, cloud, classifSF,
                                    testSubset.idx, 1)
    IN  [returned |-> TRUE, ret |-> TRUE, msg |-> NoMsg,
         metrics |-> [sampleCount |-> testSampleCount, goodGuess |-> goodGuess,
                      ratio |-> FloatDiv(goodGuess, testSampleCount)],
         predicts |-> testSampleCount, data |-> test_data]

\* --------------------------------------------------- Classifier::train
\* the point index of row i (1-based): trainSubset ? getPointGlobalIndex : i
TrainRowPoints(trainSubset, sampleCount) ==
    IF trainSubset.isNull THEN [i \in 1 .. sampleCount |-> i - 1]
    ELSE trainSubset.idx

\* static_cast<unsigned char>(int), stored back as a float (half units)
UCharCast(iClass) == 2 * (iClass % 256)

\* the classification labels vector (lines 261-276)
FillTrainLabels(cloud, classifSF, idx, sampleCount) ==
    [i \in 1 .. sampleCount |->
        LET pointClass == SFValue(cloud, classifSF, idx[i])
            iClass == IntCast(pointClass)
        IN  UCharCast(iClass)]

\* the loop filling training_data, feature by feature (lines 279-302)
RECURSIVE FillTrainingData(_, _, _, _, _)
FillTrainingData(m, features, cloud, idx, fIndex) ==
    IF fIndex > Len(features) THEN [ok |-> TRUE, err |-> NoMsg, mat |-> m]
    ELSE LET f == features[fIndex] IN
         IF f.cloud # cloud THEN [ok |-> FALSE, err |-> MsgOtherCloud, mat |-> m]
         ELSE LET source == GetSource(f, cloud)
              IN  IF source.isNull \/ ~SourceIsValid(source)
                  THEN [ok |-> FALSE, err |-> MsgInvalidSource, mat |-> m]
                  ELSE FillTrainingData(FillColumn(m, source, idx, fIndex),
                                        features, cloud, idx, fIndex + 1)

NoLabels == [i \in {} |-> 0]

\* TrainFail releasing the model on an early return, as the handlers of the
\* trainer's exceptions do
TrainFail_Releasing(m_rtrees_k, msg) ==
    [returned |-> TRUE, ret |-> FALSE, msg |-> msg, model |-> NullModel,
     created |-> FALSE, invoked |-> FALSE, data |-> NoMat, labels |-> NoLabels,
     progress |-> << >>]

\* a return of train before the trainer exists: m_rtrees is left as it was
TrainFail(m_rtrees_k, msg) ==
    [returned |-> TRUE, ret |-> FALSE, msg |-> msg, model |-> m_rtrees_k,
     created |-> FALSE, invoked |-> FALSE, data |-> NoMat, labels |-> NoLabels,
     progress |-> << >>]

TrainAbort(m_rtrees_k) ==
    [returned |-> FALSE, ret |-> FALSE, msg |-> NoMsg, model |-> m_rtrees_k,
     created |-> FALSE, invoked |-> FALSE, data |-> NoMat, labels |-> NoLabels,
     progress |-> << >>]

\* assert(false); errorMessage = msg; return false;
TrainAssertFalse(asserts, m_rtrees_k, msg) ==
    IF asserts THEN TrainAbort(m_rtrees_k) ELSE TrainFail(m_rtrees_k, msg)

\* the steps of train in the order of the code, from the first one that
\* cannot fail any more up to the call of the trainer: the label vector
\* (261-276) and the matrix (278-302) are filled, the progress dialog is
\* shown (304-308), the trainer is created (310-316) and run (324)
StepsToTrainer == <<"labels", "data", "show", "create", "train">>

\* StepsAfterTrainer hiding the dialog once the model has been checked
StepsAfterTrainer_HideLast == <<"isTrained", "hide", "destroy">>

\* the steps after the trainer has returned: the dialog is hidden (343), the
\* model is asked whether it is trained (346), and the dialog is destroyed
\* when train returns; when the trainer throws, only the last one happens
StepsAfterTrainer == <<"hide", "isTrained", "destroy">>

\* what the opaque trainer does on m_rtrees->train(...)
TrainerOutcomes == {"trained", "untrained", "cv::Exception", "std::exception", "unknown"}

\* TrainRun without the isTrained() check after the trainer has returned
TrainRun_NoTrainedCheck(training_data, train_labels, outcome, forest) ==
    LET base == [returned |-> TRUE, ret |-> FALSE, msg |-> NoMsg, model |-> forest,
                 created |-> TRUE, invoked |-> TRUE, data |-> training_data,
                 labels |-> train_labels,
                 progress |-> StepsToTrainer \o <<"destroy">>]
    IN
    CASE outcome = "cv::Exception" ->
            [base EXCEPT !.model = NullModel, !.msg = MsgCvException]
      [] outcome = "std::exception" ->
            [base EXCEPT !.msg = MsgStdException]
      [] outcome = "unknown" ->
            [base EXCEPT !.msg = MsgUnknown]
      [] OTHER ->
            [base EXCEPT !.ret = TRUE,
                         !.progress = StepsToTrainer \o StepsAfterTrainer]

\* lines 304-354: the trainer is created and run on (training_data, labels).
\* forest: the state of the RTrees object when train() returned or threw
TrainRun(training_data, train_labels, outcome, forest) ==
    LET base == [returned |-> TRUE, ret |-> FALSE, msg |-> NoMsg, model |-> forest,
                 created |-> TRUE, invoked |-> TRUE, data |-> training_data,
                 labels |-> train_labels,
                 progress |-> StepsToTrainer \o <<"destroy">>]
    IN
    CASE outcome = "cv::Exception" ->
            [base EXCEPT !.model = NullModel, !.msg = MsgCvException]
      [] outcome = "std::exception" ->
            [base EXCEPT !.msg = MsgStdException]
      [] outcome = "unknown" ->
            [base EXCEPT !.msg = MsgUnknown]
      [] OTHER ->
            IF ~isTrained(forest)
            THEN [base EXCEPT !.model = NullModel, !.msg = MsgTrainingFailed,
                              !.progress = StepsToTrainer \o StepsAfterTrainer]
            ELSE [base EXCEPT !.ret = TRUE,
                              !.progress = StepsToTrainer \o StepsAfterTrainer]

\* the forest the RTrees object can hold for each outcome of the trainer: a
\* trainer that throws leaves the object with the trees built so far
ForestsOf(outcome) ==
    CASE outcome = "trained" -> TrainedModels
      [] outcome = "untrained" -> {CreatedModel}
      [] OTHER -> {CreatedModel} \cup TrainedModels

\* the whole of train; allocOk: cv::Mat::create does not throw
TrainResult(m_rtrees_k, features, trainSubset, allocOk, asserts, outcome, forest) ==
    IF features = << >> THEN TrainFail(m_rtrees_k, MsgNoFeature)
    ELSE
    LET cloud == features[1].cloud IN
    IF (~trainSubset.isNull) /\ trainSubset.cloud # cloud
    THEN TrainFail(m_rtrees_k, MsgOtherSubsetCloud)
    ELSE
    LET classifSFIdx == getScalarFieldIndexByName(cloud, "Classification") IN
    IF classifSFIdx = 0 THEN TrainFail(m_rtrees_k, MsgMissingClassif)
    ELSE
    LET classifSF == getScalarField(cloud, classifSFIdx) IN
    IF classifSF = NoField \/ SFSize(cloud, classifSF) < CloudSize(cloud)
    THEN TrainAssertFalse(asserts, m_rtrees_k, MsgInvalidClassif)
    ELSE
    LET sampleCount == IF trainSubset.isNull THEN CloudSize(cloud)
                       ELSE Len(trainSubset.idx)
        attributesPerSample == Len(features)
        idx == TrainRowPoints(trainSubset, sampleCount)
    IN
    IF ~allocOk THEN TrainFail(m_rtrees_k, MsgCvException)
    ELSE
    LET train_labels == FillTrainLabels(cloud, classifSF, idx, sampleCount)
        filled == FillTrainingData(MatCreate(sampleCount, attributesPerSample),
                                   features, cloud, idx, 1)
    IN
    IF ~filled.ok
    THEN IF filled.err = MsgInvalidSource
         THEN TrainAssertFalse(asserts, m_rtrees_k, MsgInvalidSource)
         ELSE TrainFail(m_rtrees_k, filled.err)
    ELSE TrainRun(filled.mat, train_labels, outcome, forest)

\* ------------------------------------------- Classify3DMASCDialog: widgets
\* the form (setupUi) is not part of the sources: the three radio buttons and
\* combo boxes start as Qt builds them (enabled, visible, no text, no item)
\* and nothing in the dialog ever enables or shows one again.  Radio buttons
\* are exclusive: `checked` is the checked one, 0 when none is.  Combo box
\* items are 0-based, -1 is no current item, and item i carries the unique ID
\* i + 1 of a loaded cloud; 0 is a null ccPointCloud*.
Radios == 1 .. 3

\* the role names the callers pass to setCloudRoles
RoleNames == {"PC1", "PC2", "CTX"}

\* the orders in which a QSet<QString> of role names can be iterated
RoleOrders ==
    { o \in SeqsUpTo(RoleNames, Cardinality(RoleNames)) :
        \A i, j \in 1 .. Len(o) : i # j => o[i] # o[j] }

\* m_app: a null pointer, an application without a DB root, or one with it
Apps == {"nullptr", "noDbRoot", "app"}

\* what getClouds gave back: nothing yet
NoGot == [called |-> FALSE, returned |-> TRUE, clouds |-> [t \in {} |-> 0],
          mainCloud |-> ""]

\* no dialog built yet
NoDialog ==
    [constructed |-> FALSE, app |-> "nullptr", cloudCount |-> 0,
     index |-> [i \in Radios |-> -1],
     radioEnabled |-> [i \in Radios |-> TRUE],
     visible |-> [i \in Radios |-> TRUE],
     comboEnabled |-> TRUE, checked |-> 0,
     text |-> [i \in Radios |-> ""],
     ok |-> TRUE, roles |-> {}, got |-> NoGot]

\* GetCloudFromCombo on a combo box whose current item is `index`
GetCloudFromCombo(index, hasDbRoot, asserts) ==
    IF ~hasDbRoot THEN [aborted |-> asserts, cloud |-> 0]
    ELSE IF index < 0 THEN [aborted |-> asserts, cloud |-> 0]
    ELSE [aborted |-> FALSE, cloud |-> index + 1]

\* the current items the constructor gives the three combo boxes
InitialIndex(cloudCount) ==
    [i \in Radios |->
        CASE i = 1 -> IF cloudCount > 0 THEN (IF cloudCount > 2 THEN 1 ELSE 0) ELSE -1
          [] i = 2 -> IF cloudCount > 1 THEN (IF cloudCount > 2 THEN 2 ELSE 1) ELSE -1
          [] OTHER -> IF cloudCount > 2 THEN 0 ELSE -1]

\* the state of the OK button that onCloudChanged sets
OkEnabled(d) == IF ~d.radioEnabled[1] THEN FALSE ELSE d.index[1] >= 0

\* ------------------------------------------------------------- the state
VARIABLES
    m_rtrees,   \* Classifier::m_rtrees of every classifier object
    files,      \* the model files on disk, by path
    asserts,    \* the build keeps assert() (no NDEBUG)
    alive,      \* the process runs (no abort, no crash, no escaped exception)
    call,       \* the call the caller is looking at: arguments, result, what
                \* the call handed to its collaborators, and (progress) the
                \* steps it took around its progress dialog, in order
    dlg         \* the Classify3DMASCDialog: its widgets, and what getClouds
                \* gave back when it was the last thing done

vars == <<m_rtrees, files, asserts, alive, call, dlg>>

Classifiers == {"A", "B"}
Paths == {"rf.yaml"}

\* a missing file
NoFile == << >>

\* what a path holds when the program starts: nothing, or a model file that
\* some program wrote for a forest that was never trained
InitialFiles == {NoFile, Serialize(CreatedModel)}

\* no call in progress: the caller is about to make one.  wasValid is what
\* isValid() answered when the call was made
NoCall ==
    [op |-> "none", self |-> "", features |-> << >>, subset |-> NoSubset,
     filename |-> "", wasValid |-> FALSE, returned |-> TRUE, ret |-> FALSE,
     msg |-> NoMsg, warned |-> FALSE, metrics |-> ZeroMetrics, predicts |-> 0,
     created |-> FALSE, invoked |-> FALSE, data |-> NoMat, labels |-> NoLabels,
     progress |-> << >>]

\* Classifier::Classifier(): m_rtrees is a null Ptr
Init ==
    /\ m_rtrees = [k \in Classifiers |-> NullModel]
    /\ files \in [Paths -> InitialFiles]
    /\ asserts \in BOOLEAN
    /\ alive = TRUE
    /\ call = NoCall
    /\ dlg = NoDialog

\* the effect of train with result r on classifier k
TrainEffect(k, features, trainSubset, r) ==
    /\ m_rtrees' = [m_rtrees EXCEPT ![k] = r.model]
    /\ alive' = r.returned
    /\ call' = [NoCall EXCEPT !.op = "train", !.self = k, !.features = features,
                              !.subset = trainSubset,
                              !.wasValid = isValid(m_rtrees[k]),
                              !.returned = r.returned,
                              !.ret = r.ret, !.msg = r.msg, !.created = r.created,
                              !.invoked = r.invoked, !.data = r.data,
                              !.labels = r.labels, !.progress = r.progress]
    /\ UNCHANGED <<files, asserts, dlg>>

\* train(params, features, errorMessage, trainSubset) on classifier k
Train(k, featureSets, subsets) ==
    /\ alive /\ call.op = "none"
    /\ \E features \in featureSets, trainSubset \in subsets, allocOk \in BOOLEAN :
          LET pre == TrainResult(m_rtrees[k], features, trainSubset, allocOk,
                                 asserts, "untrained", CreatedModel)
          IN  IF pre.invoked
              THEN \E outcome \in TrainerOutcomes : \E forest \in ForestsOf(outcome) :
                      TrainEffect(k, features, trainSubset,
                                  TrainRun(pre.data, pre.labels, outcome, forest))
              ELSE TrainEffect(k, features, trainSubset, pre)

\* EvaluateEffect releasing the model when the evaluation fails, as train does
EvaluateEffect_Releasing(k, features, testSubset, r) ==
    /\ m_rtrees' = IF r.ret THEN m_rtrees ELSE [m_rtrees EXCEPT ![k] = NullModel]
    /\ alive' = r.returned
    /\ call' = [NoCall EXCEPT !.op = "evaluate", !.self = k,
                              !.features = features, !.subset = testSubset,
                              !.wasValid = isValid(m_rtrees[k]),
                              !.returned = r.returned, !.ret = r.ret,
                              !.msg = r.msg, !.metrics = r.metrics,
                              !.predicts = r.predicts, !.data = r.data]
    /\ UNCHANGED <<files, asserts, dlg>>

\* the effect of evaluate with result r on classifier k: m_rtrees is only read
EvaluateEffect(k, features, testSubset, r) ==
    /\ alive' = r.returned
    /\ call' = [NoCall EXCEPT !.op = "evaluate", !.self = k,
                              !.features = features, !.subset = testSubset,
                              !.wasValid = isValid(m_rtrees[k]),
                              !.returned = r.returned, !.ret = r.ret,
                              !.msg = r.msg, !.metrics = r.metrics,
                              !.predicts = r.predicts, !.data = r.data]
    /\ UNCHANGED <<m_rtrees, files, asserts, dlg>>

\* evaluate(features, testSubset, metrics, errorMessage) on classifier k
Evaluate(k, featureSets, subsets) ==
    /\ alive /\ call.op = "none"
    /\ \E features \in featureSets, testSubset \in subsets, allocOk \in BOOLEAN :
          EvaluateEffect(k, features, testSubset,
                         EvaluateResult(m_rtrees[k], features, testSubset, allocOk, asserts))

\* toFile(filename) on classifier k; cv::Algorithm::save may throw, and
\* toFile has no handler
ToFile(k, filename) ==
    /\ alive /\ call.op = "none"
    /\ IF m_rtrees[k].isNull
       THEN /\ call' = [NoCall EXCEPT !.op = "toFile", !.self = k,
                                      !.filename = filename, !.warned = TRUE]
            /\ UNCHANGED <<m_rtrees, files, asserts, alive, dlg>>
       ELSE \E saved \in BOOLEAN :
            /\ files' = IF saved THEN [files EXCEPT ![filename] = Serialize(m_rtrees[k])]
                         ELSE files
            /\ alive' = saved
            /\ call' = [NoCall EXCEPT !.op = "toFile", !.self = k,
                                      !.filename = filename,
                                      !.wasValid = isValid(m_rtrees[k]),
                                      !.returned = saved,
                                      !.ret = saved,
                                      !.progress = IF saved THEN <<"show", "close", "destroy">>
                                                   ELSE <<"show", "destroy">>]
            /\ UNCHANGED <<m_rtrees, asserts, dlg>>

\* FromFile keeping the model it held when the loaded one is not trained
FromFile_KeepTrained(k, filename) ==
    /\ alive /\ call.op = "none"
    /\ LET loaded == Deserialize(files[filename])
       IN  /\ m_rtrees' = IF (~loaded.isNull) /\ ~isTrained(loaded) THEN m_rtrees
                          ELSE [m_rtrees EXCEPT ![k] = loaded]
           /\ alive' = ~loaded.isNull
           /\ call' = [NoCall EXCEPT !.op = "fromFile", !.self = k,
                                     !.filename = filename,
                                     !.wasValid = isValid(m_rtrees[k]),
                                     !.returned = ~loaded.isNull,
                                     !.ret = ~loaded.isNull,
                                     !.warned = (~loaded.isNull) /\ ~isTrained(loaded),
                                     !.progress = IF loaded.isNull THEN <<"show", "close">>
                                                  ELSE <<"show", "close", "destroy">>]
    /\ UNCHANGED <<files, asserts, dlg>>

\* fromFile(filename) on classifier k; m_rtrees->isTrained() on the null Ptr
\* that load returns for a missing or unreadable file ends the process
FromFile(k, filename) ==
    /\ alive /\ call.op = "none"
    /\ LET loaded == Deserialize(files[filename])
       IN  /\ m_rtrees' = [m_rtrees EXCEPT ![k] = loaded]
           /\ alive' = ~loaded.isNull
           /\ call' = [NoCall EXCEPT !.op = "fromFile", !.self = k,
                                     !.filename = filename,
                                     !.wasValid = isValid(m_rtrees[k]),
                                     !.returned = ~loaded.isNull,
                                     !.ret = ~loaded.isNull,
                                     !.warned = (~loaded.isNull) /\ ~isTrained(loaded),
                                     !.progress = IF loaded.isNull THEN <<"show", "close">>
                                                  ELSE <<"show", "close", "destroy">>]
    /\ UNCHANGED <<files, asserts, dlg>>

\* the call has returned and the caller goes on to its next call
Return ==
    /\ alive /\ call.op # "none"
    /\ call' = NoCall
    /\ UNCHANGED <<m_rtrees, files, asserts, alive, dlg>>

\* one classifier, every input
Next ==
    \/ Train("A", FeatureSets, SubsetArgs)
    \/ Evaluate("A", FeatureSets, SubsetArgs)
    \/ \E filename \in Paths : ToFile("A", filename)
    \/ \E filename \in Paths : FromFile("A", filename)
    \/ Return

Spec == Init /\ [][Next]_vars

\* the same program built with NDEBUG: assert() compiles to nothing
InitRelease == Init /\ asserts = FALSE

SpecRelease == InitRelease /\ [][Next]_vars

\* two classifier objects sharing the disk, sampling the cloud "main"
MainFeatureSets == SeqsUpTo({f \in FeaturePool : f.cloud = "main"}, MaxFeatures)

MainSubsetArgs == {s \in SubsetArgs : s.isNull \/ s.cloud = "main"}

NextPair ==
    \/ \E k \in Classifiers : Train(k, MainFeatureSets, MainSubsetArgs)
    \/ \E k \in Classifiers : Evaluate(k, MainFeatureSets, MainSubsetArgs)
    \/ \E k \in Classifiers, filename \in Paths : ToFile(k, filename)
    \/ \E k \in Classifiers, filename \in Paths : FromFile(k, filename)
    \/ Return

SpecPair == Init /\ [][NextPair]_vars

\* ----------------------------------------- Classify3DMASCDialog: handlers
\* Classify3DMASCDialog(app), with cloudCount point clouds under the DB root
Construct(app, loaded) ==
    /\ alive /\ ~dlg.constructed
    /\ LET cloudCount == IF app = "app" THEN loaded ELSE 0
           built == [NoDialog EXCEPT !.constructed = TRUE, !.app = app,
                                     !.cloudCount = cloudCount,
                                     !.index = InitialIndex(cloudCount)]
       IN  dlg' = [built EXCEPT !.ok = OkEnabled(built)]
    /\ UNCHANGED <<m_rtrees, files, asserts, alive, call>>

\* SetCloudRoles forgetting that the combo boxes of the roles it hides keep
\* no cloud: the radio buttons of the missing roles stay enabled
SetCloudRoles_NoDisable(roles) ==
    /\ alive /\ dlg.constructed
    /\ LET index == Len(roles)
       IN  dlg' = [dlg EXCEPT
                     !.text = [i \in Radios |-> IF i <= index THEN roles[i] ELSE @[i]],
                     !.checked = IF index >= 1 THEN 1 ELSE @,
                     !.roles = {roles[i] : i \in 1 .. index},
                     !.got = NoGot]
    /\ UNCHANGED <<m_rtrees, files, asserts, alive, call>>

\* setCloudRoles(roles), the set being iterated in the order `roles`
SetCloudRoles(roles) ==
    /\ alive /\ dlg.constructed
    /\ LET index == Len(roles)
       IN  dlg' = [dlg EXCEPT
                     !.text = [i \in Radios |-> IF i <= index THEN roles[i] ELSE @[i]],
                     !.checked = IF index >= 1 THEN 1 ELSE @,
                     !.radioEnabled = [i \in Radios |-> IF index < i THEN FALSE ELSE @[i]],
                     !.comboEnabled = IF index < 1 THEN FALSE ELSE @,
                     !.visible = [i \in Radios |->
                                     IF i >= 2 /\ index < i THEN FALSE ELSE @[i]],
                     !.roles = {roles[i] : i \in 1 .. index},
                     !.got = NoGot]
    /\ UNCHANGED <<m_rtrees, files, asserts, alive, call>>

\* onCloudChanged(dummy)
OnCloudChanged ==
    /\ alive /\ dlg.constructed
    /\ dlg' = [dlg EXCEPT !.ok = OkEnabled(dlg), !.got = NoGot]
    /\ UNCHANGED <<m_rtrees, files, asserts, alive, call>>

\* the user picks item `item` in combo box i
SelectCloud(i, item) ==
    /\ alive /\ dlg.constructed
    /\ dlg.visible[i] /\ (i = 1 => dlg.comboEnabled)
    /\ item < dlg.cloudCount
    /\ dlg' = [dlg EXCEPT !.index[i] = item, !.got = NoGot]
    /\ UNCHANGED <<m_rtrees, files, asserts, alive, call>>

\* the user checks radio button i
CheckRadio(i) ==
    /\ alive /\ dlg.constructed
    /\ dlg.visible[i] /\ dlg.radioEnabled[i]
    /\ dlg' = [dlg EXCEPT !.checked = i, !.got = NoGot]
    /\ UNCHANGED <<m_rtrees, files, asserts, alive, call>>

\* getClouds(clouds, mainCloud), both empty when passed in
GetClouds ==
    /\ alive /\ dlg.constructed
    /\ IF dlg.app = "nullptr"
       THEN /\ dlg' = [dlg EXCEPT !.got = [NoGot EXCEPT !.called = TRUE,
                                                        !.returned = ~asserts]]
            /\ alive' = ~asserts
       ELSE LET enabled == {i \in Radios : dlg.radioEnabled[i]}
                from(i) == GetCloudFromCombo(dlg.index[i], dlg.app = "app", asserts)
                aborted == \E i \in enabled : from(i).aborted
                last(t) == CHOOSE i \in enabled :
                              /\ dlg.text[i] = t
                              /\ \A j \in enabled : dlg.text[j] = t => j <= i
            IN  /\ dlg' = [dlg EXCEPT !.got =
                             IF aborted
                             THEN [NoGot EXCEPT !.called = TRUE, !.returned = FALSE]
                             ELSE [called |-> TRUE, returned |-> TRUE,
                                   clouds |-> [t \in {dlg.text[i] : i \in enabled} |->
                                                  from(last(t)).cloud],
                                   mainCloud |-> IF dlg.checked \in enabled
                                                 THEN dlg.text[dlg.checked] ELSE ""]]
                /\ alive' = ~aborted
    /\ UNCHANGED <<m_rtrees, files, asserts, call>>

\* the dialog and its user
NextDialog ==
    \/ \E app \in Apps, loaded \in 0 .. MaxClouds : Construct(app, loaded)
    \/ \E roles \in RoleOrders : SetCloudRoles(roles)
    \/ OnCloudChanged
    \/ \E i \in Radios, item \in 0 .. (MaxClouds - 1) : SelectCloud(i, item)
    \/ \E i \in Radios : CheckRadio(i)
    \/ GetClouds

\* the dialog is built in a process that has not touched any classifier
InitDialog == Init /\ files = [filename \in Paths |-> NoFile]

SpecDialog == InitDialog /\ [][NextDialog]_vars

\* ------------------------------------------------------------ the claims
\* the call being looked at was made by an idle caller in this step
Called(op) == call.op = "none" /\ call'.op = op

\* the cloud a call samples: the first feature's cloud in train, the test
\* subset's cloud in evaluate ("" when the call has none)
SampledCloud(c) ==
    IF c.op = "train" THEN (IF c.features = << >> THEN "" ELSE c.features[1].cloud)
    ELSE IF c.op = "evaluate" THEN (IF c.subset.isNull THEN "" ELSE c.subset.cloud)
    ELSE ""

HasClassification(cloud) ==
    \E i \in 1 .. Len(SFNames(cloud)) : SFNames(cloud)[i] = "Classification"

PreconditionMsgs ==
    {MsgNotTrained, MsgNoFeature, MsgNoTestSubset, MsgNotPointCloud,
     MsgMissingClassif, MsgInvalidClassif, MsgOtherSubsetCloud, MsgOtherCloud}

\* C1: whenever train fails because the trainer raised an error (cv::Exception,
\* std::exception or anything else), the classifier holds no model afterwards
\* and isValid() is false.
C1_FailedTrainDiscardsModel ==
    (call.op = "train" /\ call.returned /\ ~call.ret /\ call.invoked
     /\ call.msg \in {MsgCvException, MsgStdException, MsgUnknown})
    => (m_rtrees[call.self].isNull /\ ~isValid(m_rtrees[call.self]))

\* C2: train and evaluate on a cloud without a "Classification" scalar field
\* return failure with a precondition error message and leave the model (and
\* so isValid()) as it was before the call.
C2_MissingClassificationFails ==
    [][ ((Called("train") \/ Called("evaluate"))
         /\ SampledCloud(call') # "" /\ ~HasClassification(SampledCloud(call')))
        => (call'.returned /\ ~call'.ret /\ call'.msg \in PreconditionMsgs
            /\ m_rtrees' = m_rtrees) ]_vars

InUnitInterval(ratio) == (~ratio.nan) /\ 0 <= ratio.num /\ ratio.num <= ratio.den

\* C4: after every return of evaluate the ratio lies in [0,1] and
\* goodGuess <= sampleCount; after a successful evaluate on an empty test
\* subset the ratio is 0.
C4_RatioInUnitInterval ==
    (call.op = "evaluate" /\ call.returned)
    => (/\ InUnitInterval(call.metrics.ratio)
        /\ call.metrics.goodGuess <= call.metrics.sampleCount
        /\ (call.ret /\ call.metrics.sampleCount = 0 => call.metrics.ratio = Zero))

\* the matrix a row-major walk builds: cell (i,j) is the value of the source
\* of features[j] at the point of row i
RowMajorMatrix(features, cloud, idx) ==
    [rows |-> Len(idx), cols |-> Len(features),
     at |-> [c \in (1 .. Len(idx)) \X (1 .. Len(features)) |->
                pointValue(GetSource(features[c[2]], cloud), idx[c[1]])]]

\* the points of the rows of a call: the subset's, or 0 .. size-1 of the cloud
RowPoints(c) ==
    IF c.subset.isNull THEN [i \in 1 .. CloudSize(SampledCloud(c)) |-> i - 1]
    ELSE c.subset.idx

\* C5: the sample matrix train hands to the trainer and evaluate hands to
\* the predictor has one row per selected point (per point of the cloud when
\* train has no subset) and one column per feature, and every cell holds the
\* value of its feature's source at its row's point: the column-by-column
\* fill equals the row-major walk.
C5_MatrixIsRowMajorWalk ==
    ((call.op = "train" /\ call.invoked) \/ (call.op = "evaluate" /\ call.ret))
    => (/\ call.data.rows = Len(RowPoints(call))
        /\ call.data.cols = Len(call.features)
        /\ call.data = RowMajorMatrix(call.features, SampledCloud(call), RowPoints(call)))

\* a two-column matrix over two different points, out of order
C5_Witness ==
    /\ call.op = "evaluate" /\ call.ret
    /\ call.data.rows = 2 /\ call.data.cols = 2
    /\ call.features[1] # call.features[2]
    /\ call.subset.idx = <<1, 0>>

\* the preconditions of evaluate, as the claim C6 lists them
EvaluatePreconditions(m, c) ==
    /\ isValid(m)
    /\ c.features # << >>
    /\ ~c.subset.isNull
    /\ HasClassification(c.subset.cloud)
    /\ SFSize(c.subset.cloud, "Classification") >= CloudSize(c.subset.cloud)

\* C6: evaluate returns success only if the classifier is trained, the
\* feature list is non-empty, a test subset is given and its cloud has a
\* "Classification" field as long as the cloud; otherwise evaluate returns
\* failure and predict is never called.
C6_EvaluateNeedsPreconditions ==
    (call.op = "evaluate")
    => (/\ (call.returned /\ call.ret => EvaluatePreconditions(m_rtrees[call.self], call))
        /\ (~EvaluatePreconditions(m_rtrees[call.self], call)
                => (call.returned /\ ~call.ret /\ call.predicts = 0)))

\* some feature of the list is backed by another cloud than the sampled one
MixedClouds(c) ==
    /\ SampledCloud(c) # ""
    /\ \E j \in 1 .. Len(c.features) : c.features[j].cloud # SampledCloud(c)

\* C7: train and evaluate on a feature list with a feature backed by another
\* cloud than the sampled one return failure with an error message, and no
\* matrix reaches the trainer or the predictor.
C7_MixedCloudsRejected ==
    (call.op \in {"train", "evaluate"} /\ MixedClouds(call))
    => (/\ call.returned /\ ~call.ret /\ call.msg # NoMsg
        /\ ~call.invoked /\ call.predicts = 0 /\ call.data = NoMat)

\* some feature of the list names a scalar field its cloud does not have
NamesAbsentField(features) ==
    \E j \in 1 .. Len(features) :
        /\ features[j].source = "ScalarField"
        /\ getScalarFieldIndexByName(features[j].cloud, features[j].sourceName) < 0

\* C8: train on a feature list naming an absent scalar field (at any
\* position) returns failure, never creates or runs the trainer, and leaves
\* the model as it was.
C8_AbsentFieldFailsBeforeTrainer ==
    [][ (Called("train") /\ NamesAbsentField(call'.features))
        => (/\ call'.returned /\ ~call'.ret
            /\ ~call'.created /\ ~call'.invoked
            /\ m_rtrees' = m_rtrees) ]_vars

\* C9 as claimed: evaluate with an empty feature list fails with the
\* no-feature message and zero metrics in every classifier state.
C9_EmptyFeaturesAnyState ==
    (call.op = "evaluate" /\ call.features = << >>)
    => (call.returned /\ ~call.ret /\ call.msg = MsgNoFeature
        /\ call.metrics = ZeroMetrics)

\* C9 as amended: evaluate with an empty feature list fails with zero
\* metrics; the message is the no-feature one when the classifier is trained
\* and the not-trained one when it is not.
C9_EmptyFeaturesFail ==
    (call.op = "evaluate" /\ call.features = << >>)
    => (/\ call.returned /\ ~call.ret
        /\ call.metrics = ZeroMetrics
        /\ call.msg = IF isValid(m_rtrees[call.self]) THEN MsgNoFeature
                                                      ELSE MsgNotTrained)

\* evaluate called without features, and without a test subset either, on a
\* trained classifier
C9_Witness ==
    /\ call.op = "evaluate" /\ call.features = << >> /\ call.subset.isNull
    /\ isValid(m_rtrees[call.self]) /\ call.msg = MsgNoFeature

Invalidated(k) == isValid(m_rtrees[k]) /\ ~isValid(m_rtrees'[k])

\* C11 as claimed: a new classifier is not valid, and a valid classifier that
\* a returning call leaves not valid was left so by a train call that failed
\* while training (after its trainer was created), never by evaluate, toFile
\* or fromFile.
C11_OnlyFailedTrainInvalidates ==
    /\ \A k \in Classifiers : ~isValid(m_rtrees[k])
    /\ [][ \A k \in Classifiers :
              (Invalidated(k) /\ call'.returned)
              => (call'.op = "train" /\ call'.self = k
                  /\ ~call'.ret /\ call'.created) ]_vars

\* C11 as amended: a new classifier is not valid, and a valid classifier
\* becomes not valid only through its own train call failing after its
\* trainer was created, or through its own fromFile call, which replaces
\* the model by what the file holds; never through evaluate or toFile.
C11_Lifecycle ==
    /\ \A k \in Classifiers : ~isValid(m_rtrees[k])
    /\ [][ \A k \in Classifiers :
              Invalidated(k)
              => (/\ call'.self = k
                  /\ \/ call'.op = "train" /\ ~call'.ret /\ call'.created
                     \/ call'.op = "fromFile") ]_vars

\* a valid classifier whose train call failed in the trainer and left it
\* without a model
C11_Witness ==
    /\ call.op = "train" /\ call.wasValid /\ call.returned /\ ~call.ret
    /\ call.invoked /\ ~isValid(m_rtrees[call.self])

\* the file parses, and the model in it reports itself untrained
ParsesUntrained(bytes) == Len(bytes) = 4 /\ bytes[1] = 0

\* C12: fromFile on a file that parses but whose model is untrained returns
\* true, warns, replaces the model the classifier held (whatever it was) by
\* the file's and leaves isValid() false; whenever fromFile returns it
\* returns true, and it warns exactly when isValid() is false afterwards.
C12_UntrainedFileLoads ==
    [][ Called("fromFile")
        => (/\ ParsesUntrained(files[call'.filename])
                => (/\ call'.returned /\ call'.ret /\ call'.warned
                    /\ ~m_rtrees'[call'.self].isNull
                    /\ Serialize(m_rtrees'[call'.self]) = files[call'.filename]
                    /\ ~isValid(m_rtrees'[call'.self]))
            /\ call'.returned
                => (call'.ret /\ (call'.warned <=> ~isValid(m_rtrees'[call'.self])))) ]_vars

\* a valid classifier has loaded an untrained model: success, a warning, and
\* the trained model is gone
C12_Witness ==
    /\ call.op = "fromFile" /\ call.wasValid /\ call.ret /\ call.warned
    /\ ParsesUntrained(files[call.filename])
    /\ m_rtrees[call.self] = CreatedModel

\* no model can be loaded from the file: cv::ml::RTrees::load gives a null Ptr
Unloadable(bytes) == Deserialize(bytes).isNull

\* C13: every call of train, evaluate, toFile and fromFile returns to its
\* caller (no error ends the process); fromFile on a path from which no model
\* can be loaded returns false and leaves the model held before untouched.
C13_ErrorsAreReturned ==
    [][ /\ call'.op # "none" => (call'.returned /\ alive')
        /\ (Called("fromFile") /\ Unloadable(files[call'.filename]))
              => (call'.returned /\ ~call'.ret /\ m_rtrees' = m_rtrees) ]_vars

\* the trainer of the train call c was run and returned without throwing
TrainerReturned(c) ==
    /\ c.op = "train" /\ c.invoked
    /\ c.msg \notin {MsgCvException, MsgStdException, MsgUnknown}

\* C14: train returns true only after its trainer has run and left a model
\* that reports itself trained, so isValid() is true right after every
\* successful train; when the trainer returns without throwing, either that
\* is the case, or train returns false with the generic training-failure
\* message and the classifier holds no model.
C14_SuccessMeansTrained ==
    (call.op = "train" /\ call.returned)
    => (/\ call.ret => (call.invoked /\ isValid(m_rtrees[call.self]))
        /\ TrainerReturned(call)
              => \/ call.ret /\ isValid(m_rtrees[call.self])
                 \/ /\ ~call.ret /\ call.msg = MsgTrainingFailed
                    /\ m_rtrees[call.self].isNull)

\* the trainer returned without having trained, on a classifier that was valid
C14_Witness ==
    /\ TrainerReturned(call) /\ call.returned /\ ~call.ret /\ call.wasValid
    /\ call.msg = MsgTrainingFailed /\ m_rtrees[call.self].isNull

\* the integer evaluate compares the prediction of a point with (lines 187-189)
GroundTruth(cloud, pointIndex) == IntCast(SFValue(cloud, "Classification", pointIndex))

\* C15: the label vector train hands to the trainer has one label per row of
\* the sample matrix, and the label of row i is the integer-truncated
\* "Classification" value of the point of row i: the integer evaluate uses as
\* the ground truth of that point, whatever the class value (negative or
\* above 255 included).
C15_LabelsAreGroundTruth ==
    (call.op = "train" /\ call.invoked)
    => (/\ DOMAIN call.labels = 1 .. call.data.rows
        /\ \A i \in DOMAIN call.labels :
              IntCast(call.labels[i]) = GroundTruth(SampledCloud(call), RowPoints(call)[i]))

\* the call c on the model m passes the checks that come before the look-up
\* of "Classification" (lines 99-120 in evaluate, 211-227 in train)
ReachesClassificationCheck(c, m) ==
    \/ /\ c.op = "train" /\ c.features # << >>
       /\ (c.subset.isNull \/ c.subset.cloud = c.features[1].cloud)
    \/ /\ c.op = "evaluate"
       /\ EvaluateChecks(m, c.features, c.subset) = NoMsg

\* C16: in train and evaluate, a sampled cloud that has a "Classification"
\* field as long as the cloud passes the presence check even when the field
\* is the cloud's first scalar field (index 0), and a cloud without that
\* field is rejected with the 'missing' error.
C16_PresenceNotTruthiness ==
    ReachesClassificationCheck(call, m_rtrees[call.self])
    => LET cloud == SampledCloud(call) IN
       /\ (HasClassification(cloud)
            /\ SFSize(cloud, "Classification") >= CloudSize(cloud))
              => call.msg \notin {MsgMissingClassif, MsgInvalidClassif}
       /\ ~HasClassification(cloud)
              => (call.returned /\ ~call.ret /\ call.msg = MsgMissingClassif)

\* the rows of the evaluate call c whose truncated prediction by the model m
\* is the truncated class of the row's point
GoodRows(c, m) ==
    { i \in 1 .. Len(c.subset.idx) :
        IntCast(predict(m, MatRow(c.data, i)))
            = GroundTruth(c.subset.cloud, c.subset.idx[i]) }

\* C17: after a successful evaluate, sampleCount is the size of the test
\* subset, predict has been called once per row, and goodGuess is the number
\* of rows whose integer-truncated prediction equals the integer-truncated
\* "Classification" value of the row's point.
C17_GoodGuessCountsMatches ==
    (call.op = "evaluate" /\ call.ret)
    => (/\ call.metrics.sampleCount = Len(call.subset.idx)
        /\ call.predicts = Len(call.subset.idx)
        /\ call.metrics.goodGuess = Cardinality(GoodRows(call, m_rtrees[call.self])))

\* both points of a two-point subset are well predicted, and only because
\* prediction and class are truncated before they are compared
C17_Witness ==
    /\ call.op = "evaluate" /\ call.ret
    /\ call.metrics.sampleCount = 2 /\ call.metrics.goodGuess = 2
    /\ \A i \in 1 .. 2 :
          predict(m_rtrees[call.self], MatRow(call.data, i))
              # SFValue(call.subset.cloud, "Classification", call.subset.idx[i])

\* the position of step e in the steps of a call, -1 when it did not happen
Pos(steps, e) == IndexOf(steps, e, 1)

Happened(steps, e) == Pos(steps, e) >= 0

\* the dialog of the call is shown at `show` and gone at `hide`, `close` or
\* `destroy`
Finished(steps, k) == steps[k] \in {"hide", "close", "destroy"}

\* C18 as claimed: when train shows its progress dialog, it does so before
\* the label vector and the matrix are built, the dialog stays up until the
\* trained-state check is done, and on every exit path after it was shown it
\* is taken down again.
C18_ProgressCoversSteps3To6 ==
    (call.op = "train" /\ call.returned /\ Happened(call.progress, "show"))
    => LET steps == call.progress
           show == Pos(steps, "show") + 1
       IN  /\ Happened(steps, "labels") => show < Pos(steps, "labels") + 1
           /\ Happened(steps, "data") => show < Pos(steps, "data") + 1
           /\ Happened(steps, "isTrained")
                 => \A k \in show .. Pos(steps, "isTrained") + 1 : ~Finished(steps, k)
           /\ \E k \in show + 1 .. Len(steps) : Finished(steps, k)

\* C18 as amended: train shows its progress dialog exactly when it gets as
\* far as running the trainer: after the label vector and the matrix are
\* built and before the trainer is created; the dialog stays up while the
\* trainer runs, is hidden before the trained-state check when the trainer
\* returns, and on every exit path after it was shown (success, trainer
\* exception, untrained model) it is taken down when train returns.
C18_ProgressCoversTrainer ==
    (call.op = "train" /\ call.returned)
    => LET steps == call.progress
           show == Pos(steps, "show") + 1
           train == Pos(steps, "train") + 1
       IN  /\ Happened(steps, "show") <=> call.invoked
           /\ Happened(steps, "show")
                 => (/\ Pos(steps, "labels") + 1 < show
                     /\ Pos(steps, "data") + 1 < show
                     /\ show < Pos(steps, "create") + 1
                     /\ Pos(steps, "create") + 1 < train
                     /\ \A k \in show .. train : ~Finished(steps, k)
                     /\ Happened(steps, "isTrained")
                           => (/\ TrainerReturned(call)
                               /\ train < Pos(steps, "hide") + 1
                               /\ Pos(steps, "hide") + 1 < Pos(steps, "isTrained") + 1)
                     /\ TrainerReturned(call) => Happened(steps, "isTrained")
                     /\ steps[Len(steps)] = "destroy")

\* the trainer returned without a trained model: the dialog was shown, hidden
\* and destroyed
C18_Witness ==
    /\ call.op = "train" /\ call.returned /\ ~call.ret
    /\ call.msg = MsgTrainingFailed
    /\ Happened(call.progress, "show") /\ Happened(call.progress, "hide")

\* C19: once the dialog is built, after any sequence of setCloudRoles,
\* onCloudChanged and user events, the OK button is enabled only if the radio
\* button of the first role is enabled and the first combo box has a current
\* cloud.
C19_OkNeedsFirstRole ==
    (dlg.constructed /\ dlg.ok)
    => (dlg.radioEnabled[1] /\ dlg.index[1] >= 0)

\* C20: when setCloudRoles was last given one to three roles and the OK button
\* is enabled, getClouds returns, with exactly one entry per role, each
\* mapped to a cloud that is not null, and with mainCloud the role of the
\* checked radio button.
C20_GetCloudsMapsEveryRole ==
    (dlg.got.called /\ dlg.ok /\ Cardinality(dlg.roles) \in 1 .. 3)
    => (/\ dlg.got.returned
        /\ DOMAIN dlg.got.clouds = dlg.roles
        /\ \A role \in DOMAIN dlg.got.clouds : dlg.got.clouds[role] # 0
        /\ dlg.checked \in Radios
        /\ dlg.got.mainCloud = dlg.text[dlg.checked])

====
